---- MODULE Spec2Model ----
(***************************************************************************)
(* A model of collect.py: the two field extractors, the two source         *)
(* fetchers (request loop, dedup, sort, truncate), DataCollector           *)
(* (construction, collect_all_data, save_json) and main.                   *)
(*                                                                         *)
(* Python values are modelled as follows.  A JSON value that is a dict is  *)
(* [kind |-> "map", m |-> f] with f a function whose DOMAIN is the set of  *)
(* keys present; any value that is not a dict (None, a list, a string, a   *)
(* number) is NonMapping: subscripting it with a string key raises         *)
(* TypeError, which is not a KeyError.  An extractor's outcome is          *)
(* [tag |-> "record", rec |-> r], [tag |-> "none"] (return None) or        *)
(* [tag |-> "raise"] (an exception other than KeyError leaves the call).   *)
(***************************************************************************)
EXTENDS Integers, Sequences, FiniteSets, TLC

\* ------------------------------------------------------------------ bounds
MaxResp == 2        \* items in one provider response (fetch specification)
MaxTargets == 2     \* query targets of one source (fetch specification)
MaxItems == 2       \* largest integer max_items tried
MainResp == 1       \* items in one provider response (main specification)
MainTargets == 1    \* query targets of one source (main specification)
SaveLen == 2        \* longest list handed to save_json on its own

Ids == {1, 2, 3}          \* identity keys the providers answer with
Ranks == {5, 9}           \* ranking keys (score / publishedAt order)
MainIds == {1, 2}
MainRanks == {1}

VARIABLES
    \* --- extractor specification
    ex_src, ex_raw, ex_out,
    \* --- fetch specification (one call of fetch_reddit_posts / fetch_youtube_videos)
    kind, src_enabled, ntargets, max_items, fpc, idx, pos,
    all_results, seen_ids, requests, status, first_presented, ret,
    \* --- main specification
    config_exists, youtube_key, reddit_creds, token_status, enabled, targets,
    run_max_items, pc, results, fetched, fetch_raised, snapshots, exit_code,
    \* --- save_json specification
    sv_data, sv_filename, sv_out

exVars == <<ex_src, ex_raw, ex_out>>
fVars == <<kind, src_enabled, ntargets, max_items, fpc, idx, pos,
           all_results, seen_ids, requests, status, first_presented, ret>>
mVars == <<config_exists, youtube_key, reddit_creds, token_status, enabled, targets,
           run_max_items, pc, results, fetched, fetch_raised, snapshots, exit_code>>
sVars == <<sv_data, sv_filename, sv_out>>
vars == <<exVars, fVars, mVars, sVars>>

Sources == {"youtube", "reddit"}

\* ------------------------------------------------------------ Python values
NonMapping == [kind |-> "null"]
Mapping(f) == [kind |-> "map", m |-> f]
IsMapping(v) == v.kind = "map"
HasKey(v, k) == k \in DOMAIN v.m

None == [tag |-> "none"]
Raise == [tag |-> "raise"]
Record(r) == [tag |-> "record", rec |-> r]

\* datetime.now().isoformat(): the capture time, one reading per record
Now == "now"

\* --------------------------------------------------------- Reddit extractor
RedditRequired == {"id", "title", "subreddit", "created_utc", "permalink"}
RedditOptional == {"selftext", "author", "score", "num_comments"}
RedditFields == RedditRequired \cup RedditOptional

\* dict.get(key, default)
Get(d, k, default) == IF k \in DOMAIN d THEN d[k] ELSE default

\* The value a provider gives field k of a post with identity i and score s.
RedditValue(k, i, s) ==
    CASE k = "id" -> i
      [] k = "score" -> s
      [] k = "num_comments" -> 4
      [] k = "created_utc" -> 17
      [] OTHER -> k

RedditData(keys, i, s) == Mapping([k \in keys |-> RedditValue(k, i, s)])
RedditPost(keys, i, s) == Mapping([k \in {"data"} |-> RedditData(keys, i, s)])

_extract_post_data(post_data) ==
    IF ~IsMapping(post_data) THEN Raise                 \* post_data["data"]: TypeError
    ELSE IF ~HasKey(post_data, "data") THEN None        \* KeyError
    ELSE LET data == post_data.m["data"] IN
         IF ~IsMapping(data) THEN Raise                 \* data["id"]: TypeError
         ELSE IF ~(RedditRequired \subseteq DOMAIN data.m) THEN None   \* KeyError
         ELSE Record([id |-> data.m["id"],
                      title |-> data.m["title"],
                      selftext |-> Get(data.m, "selftext", ""),
                      subreddit |-> data.m["subreddit"],
                      author |-> Get(data.m, "author", "[deleted]"),
                      score |-> Get(data.m, "score", 0),
                      num_comments |-> Get(data.m, "num_comments", 0),
                      created_utc |-> data.m["created_utc"],
                      permalink |-> <<"https://www.reddit.com", data.m["permalink"]>>,
                      fetched_at |-> Now])

\* -------------------------------------------------------- YouTube extractor
SnippetFields == {"title", "description", "channelTitle", "publishedAt"}

SnippetValue(k, p) == IF k = "publishedAt" THEN p ELSE k

YouTubeId(keys, v) == Mapping([k \in keys |-> v])
YouTubeSnippet(keys, p) == Mapping([k \in keys |-> SnippetValue(k, p)])
\* parts: a function from a subset of {"id", "snippet"} to JSON values
YouTubeItem(parts) == Mapping(parts)

_extract_video_data(item) ==
    IF ~IsMapping(item) THEN Raise                      \* item["id"]: TypeError
    ELSE IF ~HasKey(item, "id") THEN None               \* KeyError
    ELSE IF ~IsMapping(item.m["id"]) THEN Raise         \* item["id"]["videoId"]: TypeError
    ELSE IF ~HasKey(item.m["id"], "videoId") THEN None  \* KeyError
    ELSE IF ~HasKey(item, "snippet") THEN None          \* KeyError
    ELSE LET video_id == item.m["id"].m["videoId"]
             snippet == item.m["snippet"] IN
         IF ~IsMapping(snippet) THEN Raise              \* snippet["title"]: TypeError
         ELSE IF ~(SnippetFields \subseteq DOMAIN snippet.m) THEN None   \* KeyError
         ELSE Record([videoId |-> video_id,
                      title |-> snippet.m["title"],
                      description |-> snippet.m["description"],
                      channelTitle |-> snippet.m["channelTitle"],
                      publishedAt |-> snippet.m["publishedAt"],
                      url |-> <<"https://www.youtube.com/watch?v=", video_id>>,
                      fetched_at |-> Now])

Extract(k, raw) ==
    IF k = "reddit" THEN _extract_post_data(raw) ELSE _extract_video_data(raw)

\* The identity key and the ranking key of a canonical record.
IdentityKey(k, rec) == IF k = "reddit" THEN rec.id ELSE rec.videoId
RankingKey(k, rec) == IF k = "reddit" THEN rec.score ELSE rec.publishedAt

\* ------------------------------------------ raw items the extractors are given
RedditRawAll ==
    {NonMapping, Mapping(<<>>), Mapping([k \in {"data"} |-> NonMapping])}
    \cup {RedditPost(keys, 1, 5) : keys \in SUBSET RedditFields}

YouTubeIdParts == {NonMapping} \cup {YouTubeId(keys, 1) : keys \in SUBSET {"videoId"}}
YouTubeSnippetParts ==
    {NonMapping} \cup {YouTubeSnippet(keys, 5) : keys \in SUBSET SnippetFields}

YouTubeRawAll ==
    {NonMapping, Mapping(<<>>)}
    \cup {YouTubeItem([k \in {"id"} |-> i]) : i \in YouTubeIdParts}
    \cup {YouTubeItem([k \in {"snippet"} |-> s]) : s \in YouTubeSnippetParts}
    \cup {YouTubeItem([k \in {"id", "snippet"} |-> IF k = "id" THEN i ELSE s]) :
              i \in YouTubeIdParts, s \in YouTubeSnippetParts}

\* ------------------------------------------------------------ fetch helpers
Min(a, b) == IF a <= b THEN a ELSE b
Max(a, b) == IF a >= b THEN a ELSE b

\* max_items as read from the settings: an integer, None (a key left empty in the
\* YAML file) or a value of another type, such as the string a quoted number
\* loads as.
IntItems(n) == [type |-> "int", val |-> n]
NoneItems == [type |-> "none", val |-> 0]
StrItems == [type |-> "str", val |-> 0]
MaxItemsValues == {IntItems(n) : n \in (-1)..MaxItems} \cup {NoneItems, StrItems}

\* Slice gone wrong: a slice that keeps one element too many
SliceOneMore(s, n) == SubSeq(s, 1, Min(n + 1, Len(s)))

\* all_results[:n] for an integer n
Slice(s, n) ==
    IF n >= 0 THEN SubSeq(s, 1, Min(n, Len(s)))
    ELSE SubSeq(s, 1, Max(Len(s) + n, 0))

\* all_results[:max_items]: None slices to the end, a string raises TypeError
SliceRaises(mx) == mx.type = "str"
SliceBy(s, mx) == IF mx.type = "none" THEN s ELSE Slice(s, mx.val)

\* max_items // len(search_terms): raises TypeError unless max_items is a number
FloorDivRaises(mx) == mx.type # "int"

\* InsertDesc gone wrong: ties reversed, as an ascending sort reversed afterwards gives
InsertDescTiesReversed(k, sorted, rec) ==
    LET before == {j \in 1..Len(sorted) :
                       RankingKey(k, sorted[j]) > RankingKey(k, rec)}
        n == Cardinality(before)
    IN SubSeq(sorted, 1, n) \o <<rec>> \o SubSeq(sorted, n + 1, Len(sorted))

\* rec placed behind every element whose ranking key is >= its own
InsertDesc(k, sorted, rec) ==
    LET before == {j \in 1..Len(sorted) :
                       RankingKey(k, sorted[j]) >= RankingKey(k, rec)}
        n == Cardinality(before)
    IN SubSeq(sorted, 1, n) \o <<rec>> \o SubSeq(sorted, n + 1, Len(sorted))

RECURSIVE SortDesc(_, _)
\* list.sort(key=..., reverse=True): descending, equal keys keep their order
SortDesc(k, s) ==
    IF s = <<>> THEN <<>>
    ELSE InsertDesc(k, SortDesc(k, SubSeq(s, 1, Len(s) - 1)), s[Len(s)])

\* One pass of the loop body over a raw item: extract, then append unless the
\* identity key was seen.  raised: the extractor's exception leaves the loop.
ProcessItem(k, acc, item) ==
    LET e == Extract(k, item) IN
    IF e.tag = "raise" THEN [acc EXCEPT !.raised = TRUE]
    ELSE IF e.tag = "record" /\ IdentityKey(k, e.rec) \notin acc.seen
    THEN [all |-> Append(acc.all, e.rec),
          seen |-> acc.seen \cup {IdentityKey(k, e.rec)},
          raised |-> FALSE]
    ELSE acc

RECURSIVE ProcessItems(_, _, _)
\* the for loop over a response's items; an exception ends it (except Exception:
\* continue), keeping what was appended before
ProcessItems(k, acc, items) ==
    IF items = <<>> THEN acc
    ELSE LET r == ProcessItem(k, acc, Head(items)) IN
         IF r.raised THEN [r EXCEPT !.raised = FALSE]
         ELSE ProcessItems(k, r, Tail(items))

RECURSIVE FetchTargets(_, _, _)
\* the loop over the query targets, outcomes[i] being what target i's request gave
FetchTargets(k, acc, outcomes) ==
    IF outcomes = <<>> THEN acc
    ELSE LET o == Head(outcomes)
             next == IF o.status = "ok" THEN ProcessItems(k, acc, o.items) ELSE acc
         IN FetchTargets(k, next, Tail(outcomes))

Returned(list) == [raised |-> FALSE, value |-> list]
Raised == [raised |-> TRUE, value |-> <<>>]

\* A whole call of fetch_reddit_posts / fetch_youtube_videos.
Fetch(k, is_enabled, outcomes, mx) ==
    IF ~is_enabled \/ outcomes = <<>> THEN Returned(<<>>)
    ELSE IF k = "youtube" /\ FloorDivRaises(mx) THEN Raised
    ELSE LET acc == FetchTargets(k, [all |-> <<>>, seen |-> {}, raised |-> FALSE], outcomes)
             sorted == SortDesc(k, acc.all)
         IN IF SliceRaises(mx) THEN Raised
            ELSE Returned(SliceBy(sorted, mx))

\* ------------------------------------------------- raw items in a response
GoodReddit(i, s) == RedditPost(RedditFields, i, s)
GoodYouTube(i, p) ==
    YouTubeItem([k \in {"id", "snippet"} |->
        IF k = "id" THEN YouTubeId({"videoId"}, i) ELSE YouTubeSnippet(SnippetFields, p)])
Good(k, i, r) == IF k = "reddit" THEN GoodReddit(i, r) ELSE GoodYouTube(i, r)
NoTitle(k) ==
    IF k = "reddit" THEN RedditPost(RedditFields \ {"title"}, 1, 5)
    ELSE YouTubeItem([p \in {"id", "snippet"} |->
             IF p = "id" THEN YouTubeId({"videoId"}, 1)
             ELSE YouTubeSnippet(SnippetFields \ {"title"}, 5)])

RawItems(k, ids, ranks) ==
    {Good(k, i, r) : i \in ids, r \in ranks} \cup {NonMapping, NoTitle(k)}

\* The raw item first presented for each identity key, over every item of every
\* 200 response in target-then-item order, read or not.
Present(fp, k, item) ==
    LET e == Extract(k, item) IN
    IF e.tag = "record" /\ IdentityKey(k, e.rec) \notin DOMAIN fp
    THEN fp @@ (IdentityKey(k, e.rec) :> item)
    ELSE fp

\* ------------------------------------------------------ fetch specification
ExtractIdle == ex_src = "reddit" /\ ex_raw = NonMapping /\ ex_out = None
MainIdle ==
    /\ config_exists = FALSE /\ youtube_key = FALSE /\ reddit_creds = FALSE
    /\ enabled = [s \in Sources |-> FALSE] /\ targets = [s \in Sources |-> 0]
    /\ token_status = "non200"
    /\ run_max_items = StrItems /\ pc = "idle" /\ results = <<>>
    /\ fetched = {} /\ fetch_raised = {} /\ snapshots = <<>> /\ exit_code = 0
SaveIdle == sv_data = <<>> /\ sv_filename = "" /\ sv_out = <<>>
FetchIdle ==
    /\ kind = "reddit" /\ src_enabled = FALSE /\ ntargets = 0
    /\ max_items = StrItems /\ fpc = "idle" /\ idx = 0 /\ pos = 0
    /\ all_results = <<>> /\ seen_ids = {} /\ requests = 0 /\ status = "none"
    /\ first_presented = <<>> /\ ret = <<>>

InitFetch ==
    /\ kind \in Sources
    /\ src_enabled \in BOOLEAN
    /\ ntargets \in 0..MaxTargets
    /\ max_items \in MaxItemsValues
    /\ fpc = "call" /\ idx = 0 /\ pos = 0
    /\ all_results = <<>> /\ seen_ids = {} /\ requests = 0 /\ status = "none"
    /\ first_presented = <<>> /\ ret = <<>>
    /\ ExtractIdle /\ MainIdle /\ SaveIdle

\* lines 87-95 / 152-162: the guards and the empty accumulators
FetchCall ==
    /\ fpc = "call"
    /\ IF ~src_enabled \/ ntargets = 0
       THEN fpc' = "returned" /\ idx' = idx
       ELSE fpc' = "loop" /\ idx' = 1
    /\ UNCHANGED <<kind, src_enabled, ntargets, max_items, pos, all_results,
                   seen_ids, requests, status, first_presented, ret>>
    /\ UNCHANGED <<exVars, mVars, sVars>>

\* YouTube builds params before the try: a non-integer max_items raises there
AtRequest == fpc = "loop" /\ idx <= ntargets
ParamsRaise == kind = "youtube" /\ FloorDivRaises(max_items)

RequestParamsRaise ==
    /\ AtRequest /\ ParamsRaise
    /\ fpc' = "raised"
    /\ UNCHANGED <<kind, src_enabled, ntargets, max_items, idx, pos, all_results,
                   seen_ids, requests, status, first_presented, ret>>
    /\ UNCHANGED <<exVars, mVars, sVars>>

\* session.get answers 200: the items are read next
RequestOk ==
    /\ AtRequest /\ ~ParamsRaise
    /\ requests' = requests + 1 /\ status' = "ok"
    /\ fpc' = "items" /\ pos' = 0
    /\ UNCHANGED <<kind, src_enabled, ntargets, max_items, idx, all_results,
                   seen_ids, first_presented, ret>>
    /\ UNCHANGED <<exVars, mVars, sVars>>

\* RequestNon200 gone wrong: break instead of continue
RequestNon200Break ==
    /\ fpc = "loop" /\ idx <= ntargets /\ ~(kind = "youtube" /\ FloorDivRaises(max_items))
    /\ requests' = requests + 1 /\ status' = "non200"
    /\ idx' = ntargets + 1
    /\ UNCHANGED <<kind, src_enabled, ntargets, max_items, fpc, pos, all_results,
                   seen_ids, first_presented, ret>>
    /\ UNCHANGED <<exVars, mVars, sVars>>

\* status_code != 200: continue
RequestNon200 ==
    /\ AtRequest /\ ~ParamsRaise
    /\ requests' = requests + 1 /\ status' = "non200"
    /\ idx' = idx + 1
    /\ UNCHANGED <<kind, src_enabled, ntargets, max_items, fpc, pos, all_results,
                   seen_ids, first_presented, ret>>
    /\ UNCHANGED <<exVars, mVars, sVars>>

\* session.get or response.json() raises: except Exception: continue
RequestRaises ==
    /\ AtRequest /\ ~ParamsRaise
    /\ requests' = requests + 1 /\ status' = "raised"
    /\ idx' = idx + 1
    /\ UNCHANGED <<kind, src_enabled, ntargets, max_items, fpc, pos, all_results,
                   seen_ids, first_presented, ret>>
    /\ UNCHANGED <<exVars, mVars, sVars>>

\* the loop body on the response's next item
ReadItem ==
    /\ fpc = "items" /\ pos < MaxResp
    /\ \E item \in RawItems(kind, Ids, Ranks) :
          LET r == ProcessItem(kind, [all |-> all_results, seen |-> seen_ids,
                                      raised |-> FALSE], item) IN
          /\ all_results' = r.all
          /\ seen_ids' = r.seen
          /\ fpc' = IF r.raised THEN "aborted" ELSE "items"
          /\ first_presented' = Present(first_presented, kind, item)
    /\ pos' = pos + 1
    /\ UNCHANGED <<kind, src_enabled, ntargets, max_items, idx, requests, status, ret>>
    /\ UNCHANGED <<exVars, mVars, sVars>>

\* an item of the response behind the one whose extraction raised: never read
UnreadItem ==
    /\ fpc = "aborted" /\ pos < MaxResp
    /\ \E item \in RawItems(kind, Ids, Ranks) :
          first_presented' = Present(first_presented, kind, item)
    /\ pos' = pos + 1
    /\ UNCHANGED <<kind, src_enabled, ntargets, max_items, fpc, idx, all_results,
                   seen_ids, requests, status, ret>>
    /\ UNCHANGED <<exVars, mVars, sVars>>

\* the response holds no further item: on to the next target
EndResponse ==
    /\ fpc \in {"items", "aborted"}
    /\ fpc' = "loop" /\ idx' = idx + 1 /\ pos' = 0
    /\ UNCHANGED <<kind, src_enabled, ntargets, max_items, all_results,
                   seen_ids, requests, status, first_presented, ret>>
    /\ UNCHANGED <<exVars, mVars, sVars>>

\* lines 124-125 / 198-199: sort in place, return the slice
SortAndReturn ==
    /\ fpc = "loop" /\ idx > ntargets
    /\ all_results' = SortDesc(kind, all_results)
    /\ IF SliceRaises(max_items)
       THEN fpc' = "raised" /\ ret' = ret
       ELSE fpc' = "returned" /\ ret' = SliceBy(all_results', max_items)
    /\ UNCHANGED <<kind, src_enabled, ntargets, max_items, idx, pos,
                   seen_ids, requests, status, first_presented>>
    /\ UNCHANGED <<exVars, mVars, sVars>>

NextFetch ==
    \/ FetchCall
    \/ RequestParamsRaise
    \/ RequestOk
    \/ RequestNon200
    \/ RequestRaises
    \/ ReadItem
    \/ UnreadItem
    \/ EndResponse
    \/ SortAndReturn

SpecFetch == InitFetch /\ [][NextFetch]_vars

\* ------------------------------------------------- properties of a fetch
Failed == {"non200", "raised"}

\* C1: the returned list holds no identity key twice, and the record kept for a
\* key is the one extracted from the first item presented with that key, in
\* target-then-item order.
C1_DedupFirstWins ==
    fpc = "returned" =>
        /\ \A i, j \in 1..Len(ret) :
               i # j => IdentityKey(kind, ret[i]) # IdentityKey(kind, ret[j])
        /\ \A i \in 1..Len(ret) :
               Extract(kind, first_presented[IdentityKey(kind, ret[i])]).rec = ret[i]

\* C2: for an integer max_items >= 0 the returned list is no longer than max_items.
C2_Bound ==
    (fpc = "returned" /\ max_items.type = "int" /\ max_items.val >= 0)
        => Len(ret) <= max_items.val

\* max_items below the number of targets cuts a longer accumulation down to it
C2_Witness ==
    /\ fpc = "returned" /\ max_items = IntItems(1) /\ ntargets = 2
    /\ Len(all_results) >= 2 /\ Len(ret) = 1

\* The place of s[i] in the stable descending order of s.
Place(k, s, i) ==
    1 + Cardinality({j \in 1..Len(s) :
            \/ RankingKey(k, s[j]) > RankingKey(k, s[i])
            \/ RankingKey(k, s[j]) = RankingKey(k, s[i]) /\ j < i})

IsStableTop(k, s, n, out) ==
    /\ Len(out) = Min(n, Len(s))
    /\ \A i \in 1..Len(s) :
           IF Place(k, s, i) <= Len(out)
           THEN out[Place(k, s, i)] = s[i]
           ELSE \A p \in 1..Len(out) : RankingKey(k, s[i]) <= RankingKey(k, out[p])

\* C3: the list a fetch returns is the first max_items records of the accumulation
\* in descending ranking-key order, equal keys in insertion order; no record cut
\* off ranks above a returned one.
C3_SortedPrefix ==
    [][(fpc = "loop" /\ fpc' = "returned" /\ max_items.type = "int" /\ max_items.val >= 0)
          => IsStableTop(kind, all_results, max_items.val, ret')]_vars

\* three records, the two returned tie on the ranking key, one is cut off
C3_Witness ==
    /\ fpc = "returned" /\ Len(all_results) = 3 /\ Len(ret) = 2
    /\ RankingKey(kind, ret[1]) = RankingKey(kind, ret[2])
    /\ IdentityKey(kind, ret[1]) > IdentityKey(kind, ret[2])

\* C6: a target whose request answers non-200 or raises adds nothing and the loop
\* goes on to the next target; every target is requested before the fetch
\* returns, and a fetch given an integer max_items never raises.
C6_TargetIsolation ==
    /\ [][(requests' = requests + 1 /\ status' \in Failed)
            => /\ all_results' = all_results /\ seen_ids' = seen_ids
               /\ idx' = idx + 1 /\ fpc' = "loop"]_vars
    /\ []((fpc = "returned" /\ src_enabled) => requests = ntargets)
    /\ [](fpc = "raised" => max_items.type # "int")

\* the second target failed and the first target's records are returned
C6_Witness ==
    /\ fpc = "returned" /\ requests = 2 /\ status \in Failed
    /\ Len(ret) = 2 /\ max_items = IntItems(2)

\* C7: a malformed raw item is dropped alone: every other item of the response
\* that extracts to a record has its identity key accumulated.
C7_ItemIsolation ==
    fpc = "loop" => DOMAIN first_presented \subseteq seen_ids

\* C7, the extractor's part: no raw item makes an extractor raise.
C7_ExtractorNeverRaises == fpc # "aborted"

\* ------------------------------------------------ extractor specification
Pending == [tag |-> "pending"]

InitExtract ==
    /\ ex_src \in Sources
    /\ ex_raw \in (IF ex_src = "reddit" THEN RedditRawAll ELSE YouTubeRawAll)
    /\ ex_out = Pending
    /\ FetchIdle /\ MainIdle /\ SaveIdle

ExtractPost ==
    /\ ex_src = "reddit" /\ ex_out = Pending
    /\ ex_out' = _extract_post_data(ex_raw)
    /\ UNCHANGED <<ex_src, ex_raw, fVars, mVars, sVars>>

ExtractVideo ==
    /\ ex_src = "youtube" /\ ex_out = Pending
    /\ ex_out' = _extract_video_data(ex_raw)
    /\ UNCHANGED <<ex_src, ex_raw, fVars, mVars, sVars>>

NextExtract == ExtractPost \/ ExtractVideo

SpecExtract == InitExtract /\ [][NextExtract]_vars

\* A raw item that is a mapping all the way down: only keys may be missing.
WellFormed(k, raw) ==
    /\ IsMapping(raw)
    /\ IF k = "reddit"
       THEN HasKey(raw, "data") => IsMapping(raw.m["data"])
       ELSE /\ HasKey(raw, "id") => IsMapping(raw.m["id"])
            /\ HasKey(raw, "snippet") => IsMapping(raw.m["snippet"])

\* The provider fields a well-formed raw item carries.
FieldsOf(k, raw) ==
    IF k = "reddit"
    THEN IF HasKey(raw, "data") THEN DOMAIN raw.m["data"].m ELSE {}
    ELSE (IF HasKey(raw, "id") THEN DOMAIN raw.m["id"].m ELSE {})
         \cup (IF HasKey(raw, "snippet") THEN DOMAIN raw.m["snippet"].m ELSE {})

\* Required and optional fields as the design names them: identity, title,
\* subreddit/channel, permalink/URL, provider timestamp are required (the YouTube
\* URL is built from the identity); body text, author, score, comment count are
\* optional.
DesignRequired(k) ==
    IF k = "reddit" THEN {"id", "title", "subreddit", "permalink", "created_utc"}
    ELSE {"videoId", "title", "channelTitle", "publishedAt"}

DesignDefaults(k, present, rec) ==
    IF k = "reddit"
    THEN /\ "selftext" \notin present => rec.selftext = ""
         /\ "author" \notin present => rec.author = "[deleted]"
         /\ "score" \notin present => rec.score = 0
         /\ "num_comments" \notin present => rec.num_comments = 0
    ELSE "description" \notin present => rec.description = ""

\* C8: on a well-formed mapping, a missing required field gives absent; with every
\* required field present the result is a record, each missing optional field
\* at its default.
C8_ExtractionTolerance ==
    (ex_out # Pending /\ WellFormed(ex_src, ex_raw)) =>
        IF DesignRequired(ex_src) \subseteq FieldsOf(ex_src, ex_raw)
        THEN /\ ex_out.tag = "record"
             /\ DesignDefaults(ex_src, FieldsOf(ex_src, ex_raw), ex_out.rec)
        ELSE ex_out.tag = "none"

\* C8 as the Reddit extractor alone keeps it.
C8_RedditTolerance == ex_src = "reddit" => C8_ExtractionTolerance

\* ------------------------------------------------------------------ save_json
\* SumLens gone wrong: len(data), the number of sources
CountSources(data, S) == Cardinality(S)

RECURSIVE SumLens(_, _)
\* sum(len(source_data) for source_data in data.values()), over the keys in S
SumLens(data, S) ==
    IF S = {} THEN 0
    ELSE LET s == CHOOSE x \in S : TRUE IN Len(data[s]) + SumLens(data, S \ {s})

\* the default file name, datetime.now().strftime("%Y-%m-%d_%H-%M-%S") + ".json"
TimestampName == <<Now, ".json">>

\* The file save_json writes: its name and the JSON document.  filename = "" is
\* the falsy filename (None or empty).
save_json(data, filename) ==
    [name |-> IF filename = "" THEN TimestampName ELSE <<filename>>,
     content |->
        [metadata |-> [total_items |-> SumLens(data, DOMAIN data),
                       sources |-> [s \in DOMAIN data |-> Len(data[s])],
                       fetched_at |-> Now],
         data |-> data]]

SeqsUpTo(S, n) == UNION {[1..m -> S] : m \in 0..n}

\* the canonical records of source k with the identity keys ids
RecordsOf(k, ids) == {Extract(k, Good(k, i, 5)).rec : i \in ids}

\* collection results: any set of source keys, each with a list of its records
SaveInputs ==
    UNION {{d \in [D -> UNION {SeqsUpTo(RecordsOf(k, MainIds), SaveLen) : k \in Sources}] :
                \A k \in D : d[k] \in SeqsUpTo(RecordsOf(k, MainIds), SaveLen)} :
           D \in SUBSET Sources}

InitSave ==
    /\ sv_data \in SaveInputs
    /\ sv_filename \in {"", "out.json"}
    /\ sv_out = <<>>
    /\ ExtractIdle /\ FetchIdle /\ MainIdle

SaveJson ==
    /\ sv_out = <<>>
    /\ sv_out' = <<save_json(sv_data, sv_filename)>>
    /\ UNCHANGED <<sv_data, sv_filename, exVars, fVars, mVars>>

NextSave == SaveJson

SpecSave == InitSave /\ [][NextSave]_vars

RECURSIVE SumValues(_, _)
SumValues(f, S) ==
    IF S = {} THEN 0
    ELSE LET s == CHOOSE x \in S : TRUE IN f[s] + SumValues(f, S \ {s})

\* C9: in the snapshot, total_items is the sum of the per-source counts, the
\* counts have exactly the keys of data, and each count is the length of that
\* source's list.
C9_MetadataConsistent ==
    sv_out # <<>> =>
        LET doc == sv_out[1].content
            md == doc.metadata IN
        /\ doc.data = sv_data
        /\ DOMAIN md.sources = DOMAIN doc.data
        /\ \A s \in DOMAIN doc.data : md.sources[s] = Len(doc.data[s])
        /\ md.total_items = SumValues(md.sources, DOMAIN md.sources)

\* two sources with lists of different lengths
C9_Witness ==
    /\ sv_out # <<>> /\ DOMAIN sv_data = Sources
    /\ Len(sv_data["youtube"]) = 2 /\ Len(sv_data["reddit"]) = 1
    /\ sv_out[1].content.metadata.total_items = 3

\* no source at all
C9_WitnessEmpty ==
    sv_out # <<>> /\ DOMAIN sv_data = {} /\ sv_out[1].content.metadata.total_items = 0

\* ---------------------------------------------------- main specification
\* YouTubeFetcher.__init__: raises ValueError without YOUTUBE_API_KEY
YouTubeFetcherRaises == ~youtube_key

\* RedditFetcher.__init__ / _authenticate: raises RedditAPIError without both
\* credentials or when the token endpoint does not answer 200; a request that
\* raises leaves the constructor too
RedditFetcherRaises == ~reddit_creds \/ token_status # "200"

\* DataCollector.__init__ builds both fetchers, YouTube first, with no handler
DataCollectorRaises == YouTubeFetcherRaises \/ RedditFetcherRaises

\* what one target's request can give
Outcomes(k) ==
    {[status |-> st, items |-> <<>>] : st \in Failed}
    \cup {[status |-> "ok", items |-> its] :
              its \in SeqsUpTo(RawItems(k, MainIds, MainRanks), MainResp)}

\* AnyData gone wrong: the snapshot is saved whatever was collected
AnyDataAlways(data) == TRUE

\* any(all_data.values())
AnyData(data) == \E s \in DOMAIN data : Len(data[s]) > 0

Init ==
    /\ config_exists \in BOOLEAN
    /\ youtube_key \in BOOLEAN
    /\ reddit_creds \in BOOLEAN
    /\ token_status \in {"200", "non200", "raised"}
    /\ enabled \in [Sources -> BOOLEAN]
    /\ targets \in [Sources -> 0..MainTargets]
    /\ run_max_items \in MaxItemsValues    \* the default 20 exceeds every list here
    /\ pc = "start" /\ results = <<>> /\ fetched = {} /\ fetch_raised = {}
    /\ snapshots = <<>> /\ exit_code = -1
    /\ ExtractIdle /\ FetchIdle /\ SaveIdle

envVars == <<config_exists, youtube_key, reddit_creds, token_status, enabled,
             targets, run_max_items>>

\* main, lines 266-273: the settings file is missing or DataCollector() raises;
\* except Exception prints and returns 1
MainConstructFails ==
    /\ pc = "start"
    /\ ~config_exists \/ DataCollectorRaises
    /\ pc' = "done" /\ exit_code' = 1
    /\ UNCHANGED <<envVars, results, fetched, fetch_raised, snapshots>>
    /\ UNCHANGED <<exVars, fVars, sVars>>

MainConstruct ==
    /\ pc = "start"
    /\ config_exists /\ ~DataCollectorRaises
    /\ pc' = "collect_youtube"
    /\ UNCHANGED <<envVars, results, fetched, fetch_raised, snapshots, exit_code>>
    /\ UNCHANGED <<exVars, fVars, sVars>>

\* one source's block of collect_all_data: skipped when disabled; the fetch's
\* list is stored, or [] when the fetch raised
CollectSource(s, after) ==
    /\ pc' = after
    /\ IF enabled[s]
       THEN \E outcomes \in [1..targets[s] -> Outcomes(s)] :
              LET r == Fetch(s, enabled[s], outcomes, run_max_items) IN
              /\ results' = (s :> (IF r.raised THEN <<>> ELSE r.value)) @@ results
              /\ fetched' = fetched \cup {s}
              /\ fetch_raised' = IF r.raised THEN fetch_raised \cup {s} ELSE fetch_raised
       ELSE UNCHANGED <<results, fetched, fetch_raised>>
    /\ UNCHANGED <<envVars, snapshots, exit_code>>
    /\ UNCHANGED <<exVars, fVars, sVars>>

\* CollectYouTube gone wrong: the handler logs the exception and stores nothing
CollectYouTubeNoEntry ==
    /\ pc = "collect_youtube"
    /\ IF enabled["youtube"]
       THEN \E outcomes \in [1..targets["youtube"] -> Outcomes("youtube")] :
              LET r == Fetch("youtube", TRUE, outcomes, run_max_items) IN
              /\ results' = IF r.raised THEN results ELSE ("youtube" :> r.value) @@ results
              /\ fetched' = fetched \cup {"youtube"}
              /\ fetch_raised' = IF r.raised THEN fetch_raised \cup {"youtube"}
                                 ELSE fetch_raised
              /\ pc' = "collect_reddit"
       ELSE pc' = "collect_reddit" /\ UNCHANGED <<results, fetched, fetch_raised>>
    /\ UNCHANGED <<envVars, snapshots, exit_code>>
    /\ UNCHANGED <<exVars, fVars, sVars>>

CollectYouTube == pc = "collect_youtube" /\ CollectSource("youtube", "collect_reddit")

CollectReddit == pc = "collect_reddit" /\ CollectSource("reddit", "collected")

\* main, lines 276-281: some list is non-empty, save_json writes the snapshot
MainSave ==
    /\ pc = "collected" /\ AnyData(results)
    /\ snapshots' = Append(snapshots, save_json(results, ""))
    /\ pc' = "done" /\ exit_code' = 0
    /\ UNCHANGED <<envVars, results, fetched, fetch_raised>>
    /\ UNCHANGED <<exVars, fVars, sVars>>

\* main, lines 282-283: "No data collected", nothing is written
MainNoData ==
    /\ pc = "collected" /\ ~AnyData(results)
    /\ pc' = "done" /\ exit_code' = 0
    /\ UNCHANGED <<envVars, results, fetched, fetch_raised, snapshots>>
    /\ UNCHANGED <<exVars, fVars, sVars>>

Next ==
    \/ MainConstructFails
    \/ MainConstruct
    \/ CollectYouTube
    \/ CollectReddit
    \/ MainSave
    \/ MainNoData

Spec == Init /\ [][Next]_vars

EnabledSources == {s \in Sources : enabled[s]}
Collected == pc = "collected" \/ (pc = "done" /\ exit_code = 0)

\* C4: once collect_all_data has returned, the keys of the result are exactly the
\* enabled sources, every one of them was fetched whatever happened to the one
\* before it, and a source whose fetch raised holds the empty list.
C4_KeysAreEnabled ==
    Collected =>
        /\ DOMAIN results = EnabledSources
        /\ fetched = EnabledSources
        /\ \A s \in fetch_raised : Len(results[s]) = 0

\* the YouTube fetch raised, Reddit was still fetched and brought a record
C4_Witness ==
    /\ pc = "collected" /\ fetch_raised = {"youtube"}
    /\ DOMAIN results = Sources
    /\ Len(results["youtube"]) = 0 /\ Len(results["reddit"]) > 0

\* C5: a fetcher that cannot be constructed does not keep the other source, when
\* enabled and constructible, from being fetched.
C5_ConstructionIsolated ==
    (pc = "done" /\ config_exists) =>
        /\ (YouTubeFetcherRaises /\ ~RedditFetcherRaises /\ enabled["reddit"])
               => "reddit" \in fetched
        /\ (RedditFetcherRaises /\ ~YouTubeFetcherRaises /\ enabled["youtube"])
               => "youtube" \in fetched

\* C10: a run that completes collection has written the snapshot exactly once.
C10_WrittenOnce == (pc = "done" /\ exit_code = 0) => Len(snapshots) = 1

\* C10 as the code keeps it: never more than one snapshot; a completed run wrote
\* one if some source's list is non-empty and none otherwise.
C10_WrittenOnceIfData ==
    /\ Len(snapshots) <= 1
    /\ (pc = "done" /\ exit_code = 0) =>
           Len(snapshots) = (IF \E s \in DOMAIN results : results[s] # <<>> THEN 1 ELSE 0)

\* one source empty, the other not: one snapshot
C10_Witness ==
    /\ pc = "done" /\ Len(snapshots) = 1 /\ DOMAIN results = Sources
    /\ results["youtube"] = <<>> /\ results["reddit"] # <<>>

\* every enabled source empty: no snapshot
C10_WitnessNoData ==
    pc = "done" /\ exit_code = 0 /\ EnabledSources # {} /\ snapshots = <<>>

====
